---- MODULE Spec2Model ----
(***************************************************************************)
(* examples/boil/src/render.cc: render, colour_map and render_colour.      *)
(*                                                                         *)
(* A `double` is modelled as an exact rational.  The corners have integer  *)
(* coordinates; the real part of a sample point is kept as a numerator     *)
(* over `width` and its imaginary part as a numerator over `height`.       *)
(* std::cout is the sequence `out` of the chunks written to it, one chunk  *)
(* per output statement; `calls` is the sequence of the points the         *)
(* caller's function was evaluated at.  One step of the model is one       *)
(* iteration of the outer loop (a whole row).  `prev` is the output of a   *)
(* completed render call that the caller kept before rendering again with  *)
(* the corners exchanged.                                                  *)
(***************************************************************************)
EXTENDS Integers, Sequences, FiniteSets, TLC

VARIABLES fn, func, faultAt, a, b, j, pc, out, calls, prev, x, colour

vars == <<fn, func, faultAt, a, b, j, pc, out, calls, prev, x, colour>>

(* render.cc:5 and render.cc:41 *)
width == 80
height == 24

(* Bound of the model: the corners' coordinates are in 0..MaxCoord. *)
MaxCoord == 1

Coords == 0..MaxCoord
Corners == [re : Coords, im : Coords]

(* A faulty variant: scale_real taken on the imaginary axis. *)
ScaleReal_Imag(A, B) == B.im - A.im

(* scale_real, as a numerator over width *)
ScaleReal(A, B) == B.re - A.re

(* A faulty variant: scale_imag made positive. *)
ScaleImag_Abs(A, B) == IF B.im < A.im THEN A.im - B.im ELSE B.im - A.im

(* scale_imag, as a numerator over height *)
ScaleImag(A, B) == B.im - A.im

(* A faulty variant: the far corner of the cell is sampled. *)
SamplePoint_CellEnd(A, B, ii, jj) ==
    [re |-> A.re * width + (ii + 1) * (B.re - A.re),
     im |-> A.im * height + (jj + 1) * (B.im - A.im)]

(* a + complex(i * scale_real, j * scale_imag) *)
SamplePoint(A, B, ii, jj) ==
    [re |-> A.re * width + ii * ScaleReal(A, B),
     im |-> A.im * height + jj * ScaleImag(A, B)]

(* The caller's predicates: pure functions of the point.                   *)
(*   diag: re < im        disc: re^2 + im^2 < 1/4                          *)
Preds == {"all", "none", "diag", "disc"}
Pred(p, c) ==
    CASE p = "all" -> TRUE
      [] p = "none" -> FALSE
      [] p = "diag" -> c.re * height < c.im * width
      [] p = "disc" ->
            4 * ((c.re * height) * (c.re * height) + (c.im * width) * (c.im * width))
                < (width * height) * (width * height)

(* The row-major index of the cell at which the caller's function faults   *)
(* (throws); NoFault when it returns at every cell.                        *)
NoFault == -1
FaultCells == {NoFault, 0, 1, width - 1, width, width + 1, width * height - 1}

(* A faulty variant: the two characters exchanged. *)
RenderChar_Inverted(p, c) == IF Pred(p, c) THEN " " ELSE "#"

(* std::cout << '#' or std::cout << ' ' *)
RenderChar(p, c) == IF Pred(p, c) THEN "#" ELSE " "

(* The caller's function faults at a cell of row jj. *)
FaultsInRow(jj) == faultAt # NoFault /\ faultAt \div width = jj

(* Faulty variants: the inner loop runs while i <= width; the cell at which the    *)
(* function faults is written as well.                                     *)
CellsDone_Inclusive(jj) == IF FaultsInRow(jj) THEN faultAt % width ELSE width + 1
CellsDone_PastFault(jj) == IF FaultsInRow(jj) THEN (faultAt % width) + 1 ELSE width

(* The number of iterations of the inner loop that complete in row jj:     *)
(* all of them, or those before the cell at which the function faults.     *)
CellsDone(jj) == IF FaultsInRow(jj) THEN faultAt % width ELSE width

(* The points at which the inner loop evaluates the function in row jj, in *)
(* order: the cells that complete, and the cell that faults, if one does.  *)
RowCalls(jj) ==
    [k \in 1..(IF FaultsInRow(jj) THEN CellsDone(jj) + 1 ELSE width) |->
        SamplePoint(a, b, k - 1, jj)]

(* What the inner loop of render writes in row jj, in order. *)
RenderRowOut(jj) ==
    [k \in 1..CellsDone(jj) |-> RenderChar(func, SamplePoint(a, b, k - 1, jj))]

(* std::cout << std::endl *)
Endl == <<"\n">>

(***************************************************************************)
(* Exact arithmetic for colour_map.  A natural number is the sequence of   *)
(* its digits in base Base, least significant first, without leading zero  *)
(* digits; an integer is a sign and a magnitude; a rational is a numerator *)
(* and a non-zero denominator.                                             *)
(***************************************************************************)
Base == 100 * 100

RECURSIVE BigNorm(_)
BigNorm(u) ==
    IF u = <<>> THEN <<>>
    ELSE IF u[Len(u)] = 0 THEN BigNorm(SubSeq(u, 1, Len(u) - 1))
    ELSE u

RECURSIVE BigFromNat(_)
BigFromNat(n) == IF n = 0 THEN <<>> ELSE <<n % Base>> \o BigFromNat(n \div Base)

RECURSIVE BigAddC(_, _, _)
BigAddC(u, v, carry) ==
    IF u = <<>> /\ v = <<>> THEN BigFromNat(carry)
    ELSE LET du == IF u = <<>> THEN 0 ELSE Head(u)
             dv == IF v = <<>> THEN 0 ELSE Head(v)
             s == du + dv + carry
         IN <<s % Base>> \o BigAddC(IF u = <<>> THEN u ELSE Tail(u),
                                    IF v = <<>> THEN v ELSE Tail(v), s \div Base)
BigAdd(u, v) == BigAddC(u, v, 0)

(* u - v for u >= v *)
RECURSIVE BigSubB(_, _, _)
BigSubB(u, v, borrow) ==
    IF u = <<>> THEN <<>>
    ELSE LET dv == IF v = <<>> THEN 0 ELSE Head(v)
             d == Head(u) - dv - borrow
         IN <<IF d < 0 THEN d + Base ELSE d>>
                \o BigSubB(Tail(u), IF v = <<>> THEN v ELSE Tail(v), IF d < 0 THEN 1 ELSE 0)
BigSub(u, v) == BigNorm(BigSubB(u, v, 0))

(* u * m for a natural number m small enough for Base * m to be an int *)
RECURSIVE BigMulC(_, _, _)
BigMulC(u, m, carry) ==
    IF u = <<>> THEN BigFromNat(carry)
    ELSE LET p == Head(u) * m + carry
         IN <<p % Base>> \o BigMulC(Tail(u), m, p \div Base)
BigMul(u, m) == BigNorm(BigMulC(u, m, 0))

RECURSIVE BigTimes(_, _)
BigTimes(u, v) ==
    IF v = <<>> THEN <<>>
    ELSE BigNorm(BigAdd(BigMul(u, Head(v)), <<0>> \o BigTimes(u, Tail(v))))

RECURSIVE BigLessFrom(_, _, _)
BigLessFrom(u, v, k) ==
    IF k = 0 THEN FALSE
    ELSE IF u[k] # v[k] THEN u[k] < v[k]
    ELSE BigLessFrom(u, v, k - 1)
BigLess(u, v) ==
    IF Len(u) # Len(v) THEN Len(u) < Len(v) ELSE BigLessFrom(u, v, Len(u))
BigLeq(u, v) == ~BigLess(v, u)

Abs(n) == IF n < 0 THEN -n ELSE n

SInt(n) == [neg |-> n < 0, mag |-> BigFromNat(Abs(n))]
SIsZero(s) == s.mag = <<>>
SMul(s, t) ==
    LET m == BigTimes(s.mag, t.mag)
    IN [neg |-> m # <<>> /\ s.neg # t.neg, mag |-> m]
SAdd(s, t) ==
    IF s.neg = t.neg THEN [neg |-> s.neg, mag |-> BigAdd(s.mag, t.mag)]
    ELSE IF BigLess(s.mag, t.mag) THEN [neg |-> t.neg, mag |-> BigSub(t.mag, s.mag)]
    ELSE LET m == BigSub(s.mag, t.mag) IN [neg |-> m # <<>> /\ s.neg, mag |-> m]

RECURSIVE SPow(_, _)
SPow(s, k) == IF k = 0 THEN SInt(1) ELSE SMul(s, SPow(s, k - 1))

(* The decimal literal m / s, and the integer n *)
QDec(m, s) == [num |-> SInt(m), den |-> SInt(s)]
QInt(n) == QDec(n, 1)
QAdd(p, q) ==
    [num |-> SAdd(SMul(p.num, q.den), SMul(q.num, p.den)), den |-> SMul(p.den, q.den)]
QNeg(p) == [num |-> [neg |-> ~SIsZero(p.num) /\ ~p.num.neg, mag |-> p.num.mag], den |-> p.den]
QSub(p, q) == QAdd(p, QNeg(q))
QMul(p, q) == [num |-> SMul(p.num, q.num), den |-> SMul(p.den, q.den)]
QDiv(p, q) == [num |-> SMul(p.num, q.den), den |-> SMul(p.den, q.num)]
QIsZero(p) == SIsZero(p.num)
QIsNeg(p) == ~SIsZero(p.num) /\ p.num.neg # p.den.neg
QIsPositive(p) == ~QIsZero(p) /\ ~QIsNeg(p)
QAbs(p) == IF QIsNeg(p) THEN QNeg(p) ELSE p
QLess(p, q) == QIsNeg(QSub(p, q))
QLeq(p, q) == ~QLess(q, p)

(* Bounds of the model: the scalar functions return multiples of 1/XDen,   *)
(* and int(v) is computed for |v| < QLimit.                                *)
XDen == 100
QLimit == 131072

(* coefs[1] + coefs[2]*x + ... + coefs[deg+1]*pow(x, deg), all over scale, *)
(* at x = n / XDen: the terms from the k-th on, over scale * XDen^deg.     *)
RECURSIVE PolyNum(_, _, _)
PolyNum(coefs, n, k) ==
    IF k > Len(coefs) THEN SInt(0)
    ELSE SAdd(SMul(SMul(SInt(coefs[k]), SPow(SInt(n), k - 1)),
                   SPow(SInt(XDen), Len(coefs) - k)),
              PolyNum(coefs, n, k + 1))
Poly(coefs, scale, n) ==
    [num |-> PolyNum(coefs, n, 1),
     den |-> SMul(SInt(scale), SPow(SInt(XDen), Len(coefs) - 1))]

(* render.cc:30: 0.472 - 0.567*x + 4.05*pow(x, 2) *)
RNum(n) == Poly(<<472, -567, 4050>>, 1000, n)
(* render.cc:31: 1. + 8.72*x - 19.17*pow(x, 2) + 14.1*pow(x, 3) *)
RDen(n) == Poly(<<100, 872, -1917, 1410>>, 100, n)
RChannel(n) == QDiv(RNum(n), RDen(n))

(* render.cc:32-33: 0.108932 - 1.22635*x + 27.284*pow(x, 2) - 98.577*pow(x, 3) *)
(*                  + 163.3*pow(x, 4) - 131.395*pow(x, 5) + 40.634*pow(x, 6)   *)
GChannel(n) ==
    Poly(<<108932, -1226350, 27284000, -98577000, 163300000, -131395000, 40634000>>,
         1000000, n)

(* A faulty variant: the sign of the cubic term of b's denominator slipped. *)
BDen_SignSlip(n) == Poly(<<197, 354, -6850, -24300, -29700, 12500>>, 100, n)

(* render.cc:34-35: 1.97 + 3.54*x - 68.5*pow(x, 2) + 243*pow(x, 3)         *)
(*                  - 297*pow(x, 4) + 125*pow(x, 5)                        *)
BDen(n) == Poly(<<197, 354, -6850, 24300, -29700, 12500>>, 100, n)
BChannel(n) == QDiv(QInt(1), BDen(n))

(* The largest q in lo..(hi - 1) with q * d <= n, given lo * d <= n < hi * d. *)
RECURSIVE Quot(_, _, _, _)
Quot(n, d, lo, hi) ==
    IF hi - lo <= 1 THEN lo
    ELSE LET mid == (lo + hi) \div 2
         IN IF BigLeq(BigMul(d, mid), n) THEN Quot(n, d, mid, hi) ELSE Quot(n, d, lo, mid)

(* A faulty variant: the value is rounded to the nearest integer. *)
Trunc_Round(v) ==
    LET q == Quot(BigAdd(BigMul(v.num.mag, 2), v.den.mag), BigMul(v.den.mag, 2), 0, QLimit)
    IN IF v.num.neg # v.den.neg THEN -q ELSE q

(* int(v) for a double v: the conversion truncates toward zero. *)
Trunc(v) ==
    LET q == Quot(v.num.mag, v.den.mag, 0, QLimit)
    IN IF v.num.neg # v.den.neg THEN -q ELSE q

(* int(v) is defined and within the model's range. *)
Truncates(v) ==
    /\ ~SIsZero(v.den)
    /\ BigLess(v.num.mag, BigMul(v.den.mag, QLimit))

(* render.cc:22-27 *)
Colour(r_, g_, b_) == [r |-> r_, g |-> g_, b |-> b_]

(* render.cc:29-38 *)
colour_map(n) ==
    Colour(Trunc(QMul(RChannel(n), QInt(255))),
           Trunc(QMul(GChannel(n), QInt(255))),
           Trunc(QMul(BChannel(n), QInt(255))))

(* The inputs at which colour_map divides by zero or converts a value no   *)
(* int holds have undefined behaviour; the model leaves them out.          *)
MapDefined(n) ==
    /\ Truncates(QMul(RChannel(n), QInt(255)))
    /\ Truncates(QMul(GChannel(n), QInt(255)))
    /\ Truncates(QMul(BChannel(n), QInt(255)))

XRange == (-(XDen \div 4))..(XDen + XDen \div 4)
MapInputs == {n \in XRange : MapDefined(n)}

(* colour_map at every input of the model, computed once. *)
ColourTable == [n \in MapInputs |-> colour_map(n)]

(* The caller's scalar functions: pure functions of the point, returning   *)
(* the numerator of a multiple of 1/XDen.                                  *)
(*   frac: the fractional part of re, rounded down; cold: -1/5             *)
MapFns == {"zero", "one", "frac", "cold"}
ScalarFn(f, c) ==
    CASE f = "zero" -> 0
      [] f = "one" -> XDen
      [] f = "frac" -> ((c.re % width) * XDen) \div width
      [] f = "cold" -> -(XDen \div 5)

(* operator<<(int): the decimal digits, after a minus sign when negative *)
Digit(d) ==
    CASE d = 0 -> "0" [] d = 1 -> "1" [] d = 2 -> "2" [] d = 3 -> "3" [] d = 4 -> "4"
      [] d = 5 -> "5" [] d = 6 -> "6" [] d = 7 -> "7" [] d = 8 -> "8" [] d = 9 -> "9"
RECURSIVE DecNat(_)
DecNat(n) == IF n < 10 THEN Digit(n) ELSE DecNat(n \div 10) \o Digit(n % 10)
Dec(n) == IF n < 0 THEN "-" \o DecNat(-n) ELSE DecNat(n)

(* A faulty variant: each channel clamped to 0..255 before it is written. *)
Clamp(n) == IF n < 0 THEN 0 ELSE IF n > 255 THEN 255 ELSE n
ColourCell_Clamped(col) ==
    "ESC[38;2;" \o Dec(Clamp(col.r)) \o ";" \o Dec(Clamp(col.g)) \o ";"
        \o Dec(Clamp(col.b)) \o "m#"

(* render.cc:50-52; "ESC" stands for the byte \033 *)
ColourCell(col) ==
    "ESC[38;2;" \o Dec(col.r) \o ";" \o Dec(col.g) \o ";" \o Dec(col.b) \o "m#"

(* A faulty variant: the reset written with an explicit 0. *)
Reset_Zero == "ESC[0m"

(* render.cc:56 *)
Reset == "ESC[m"

(* What the inner loop of render_colour writes in row jj, in order. *)
ColourRowOut(jj) ==
    [k \in 1..CellsDone(jj) |->
        ColourCell(ColourTable[ScalarFn(func, SamplePoint(a, b, k - 1, jj))])]

NoColour == [r |-> 0, g |-> 0, b |-> 0]

Init ==
    /\ fn \in {"render", "render_colour"}
    /\ func \in (IF fn = "render" THEN Preds ELSE MapFns)
    /\ faultAt \in FaultCells
    /\ a \in Corners
    /\ b \in Corners
    /\ j = 0
    /\ pc = "run"
    /\ out = <<>>
    /\ calls = <<>>
    /\ prev = <<>>
    /\ x = 0
    /\ colour = NoColour

(* One iteration of the outer loop of render in which pred returns at every cell. *)
RenderRow ==
    /\ fn = "render" /\ pc = "run"
    /\ j < height
    /\ ~FaultsInRow(j)
    /\ calls' = calls \o RowCalls(j)
    /\ out' = out \o RenderRowOut(j) \o Endl
    /\ j' = j + 1
    /\ UNCHANGED <<fn, func, faultAt, a, b, pc, prev, x, colour>>

(* The iteration of the outer loop of render in which pred throws: nothing *)
(* catches it, the loops are left and render does not return.              *)
RenderRowFault ==
    /\ fn = "render" /\ pc = "run"
    /\ j < height
    /\ FaultsInRow(j)
    /\ calls' = calls \o RowCalls(j)
    /\ out' = out \o RenderRowOut(j)
    /\ pc' = "fault"
    /\ UNCHANGED <<fn, func, faultAt, a, b, j, prev, x, colour>>

(* The outer loop of render ends and render returns. *)
RenderReturn ==
    /\ fn = "render" /\ pc = "run"
    /\ j = height
    /\ pc' = "done"
    /\ UNCHANGED <<fn, func, faultAt, a, b, j, out, calls, prev, x, colour>>

(* The caller renders the same predicate again with the corners swapped    *)
(* and keeps the output of the first call to compare the two.              *)
RenderSwapped ==
    /\ fn = "render" /\ pc = "done"
    /\ prev = <<>>
    /\ prev' = out
    /\ a' = b
    /\ b' = a
    /\ j' = 0
    /\ pc' = "run"
    /\ out' = <<>>
    /\ calls' = <<>>
    /\ UNCHANGED <<fn, func, faultAt, x, colour>>

(* One iteration of the outer loop of render_colour in which f returns at every cell. *)
ColourRow ==
    /\ fn = "render_colour" /\ pc = "run"
    /\ j < height
    /\ ~FaultsInRow(j)
    /\ calls' = calls \o RowCalls(j)
    /\ out' = out \o ColourRowOut(j) \o Endl
    /\ j' = j + 1
    /\ UNCHANGED <<fn, func, faultAt, a, b, pc, prev, x, colour>>

(* The iteration of the outer loop of render_colour in which f throws. *)
ColourRowFault ==
    /\ fn = "render_colour" /\ pc = "run"
    /\ j < height
    /\ FaultsInRow(j)
    /\ calls' = calls \o RowCalls(j)
    /\ out' = out \o ColourRowOut(j)
    /\ pc' = "fault"
    /\ UNCHANGED <<fn, func, faultAt, a, b, j, prev, x, colour>>

(* The outer loop of render_colour ends; the reset is written; it returns. *)
ColourReturn ==
    /\ fn = "render_colour" /\ pc = "run"
    /\ j = height
    /\ out' = Append(out, Reset)
    /\ pc' = "done"
    /\ UNCHANGED <<fn, func, faultAt, a, b, j, calls, prev, x, colour>>

Next ==
    \/ RenderRow \/ RenderRowFault \/ RenderReturn \/ RenderSwapped
    \/ ColourRow \/ ColourRowFault \/ ColourReturn

Spec == Init /\ [][Next]_vars

(* colour_map alone, at every input of the model. *)
InitMap ==
    /\ fn = "colour_map"
    /\ func = "none"
    /\ faultAt = NoFault
    /\ a = [re |-> 0, im |-> 0]
    /\ b = [re |-> 0, im |-> 0]
    /\ j = 0
    /\ pc = "run"
    /\ out = <<>>
    /\ calls = <<>>
    /\ prev = <<>>
    /\ x \in MapInputs
    /\ colour = NoColour

MapCall ==
    /\ fn = "colour_map" /\ pc = "run"
    /\ colour' = colour_map(x)
    /\ pc' = "done"
    /\ UNCHANGED <<fn, func, faultAt, a, b, j, out, calls, prev, x>>

NextMap == MapCall

SpecMap == InitMap /\ [][NextMap]_vars

(***************************************************************************)
(* The claims.  Cell (ii, jj) is the cell of column ii in row jj; in a     *)
(* completed output its chunk is at position jj * 81 + ii + 1 of `out` and *)
(* the newline of row jj is at position jj * 81 + 81.                      *)
(***************************************************************************)
Cols == 0..79
Rows == 0..23
CellPos(ii, jj) == jj * 81 + ii + 1

(* The point the claims give for cell (ii, jj): A + (ii*(B.re-A.re)/80,    *)
(* jj*(B.im-A.im)/24), as numerators over 80 and over 24.                  *)
ClaimedPoint(ii, jj) ==
    [re |-> 80 * a.re + ii * (b.re - a.re), im |-> 24 * a.im + jj * (b.im - a.im)]

(* C1: render with a predicate that returns at every cell writes exactly   *)
(* 24 lines, each of exactly 80 characters followed by one newline, so     *)
(* 24*81 characters in all.                                                *)
C1_RenderShape ==
    (fn = "render" /\ pc = "done") =>
        /\ Len(out) = 24 * 81
        /\ \A k \in 1..Len(out) : Len(out[k]) = 1
        /\ \A k \in 1..Len(out) : (out[k] = "\n") <=> (k % 81 = 0)
        /\ Cardinality({k \in 1..Len(out) : out[k] = "\n"}) = 24

C1_Witness ==
    /\ fn = "render" /\ pc = "done" /\ a # b
    /\ Len(out) = 24 * 81

(* C2: in render and in render_colour the caller's function is evaluated   *)
(* exactly once for each cell, in row-major order, at the point            *)
(* A + (i*(B.re-A.re)/80, j*(B.im-A.im)/24) of the cell, and nowhere else. *)
C2_Sampling ==
    /\ pc \in {"done", "fault"} =>
         \A k \in 1..Len(calls) : calls[k] = ClaimedPoint((k - 1) % 80, (k - 1) \div 80)
    /\ pc = "done" => Len(calls) = 80 * 24

C2_Witness ==
    /\ fn = "render_colour" /\ pc = "done"
    /\ a.re # b.re /\ a.im # b.im
    /\ Len(calls) = 80 * 24
    /\ calls[80 * 24] = ClaimedPoint(79, 23)

(* C3: in the output of render the character of cell (i, j) is '#' exactly *)
(* when the predicate holds at the cell's sample point and a space         *)
(* otherwise; the output holds only '#', space and newline; an always-true *)
(* predicate gives only '#' cells and an always-false one only spaces.     *)
C3_RenderChars ==
    (fn = "render" /\ pc = "done") =>
        /\ \A jj \in Rows : \A ii \in Cols :
             /\ (out[CellPos(ii, jj)] = "#") <=> Pred(func, ClaimedPoint(ii, jj))
             /\ (out[CellPos(ii, jj)] = " ") <=> ~Pred(func, ClaimedPoint(ii, jj))
        /\ \A k \in 1..Len(out) : out[k] \in {"#", " ", "\n"}
        /\ func = "all" => \A jj \in Rows : \A ii \in Cols : out[CellPos(ii, jj)] = "#"
        /\ func = "none" => \A jj \in Rows : \A ii \in Cols : out[CellPos(ii, jj)] = " "

C3_Witness ==
    /\ fn = "render" /\ pc = "done" /\ func = "diag"
    /\ \E k \in 1..Len(out) : out[k] = "#"
    /\ \E k \in 1..Len(out) : out[k] = " "

(* C4 as claimed: the output of render(pred, B, A) is the exact mirror     *)
(* image of the output of render(pred, A, B): cell (i, j) of the one is    *)
(* cell (79-i, 23-j) of the other.  Here `prev` is the output of           *)
(* render(pred, A, B) and `out` that of render(pred, B, A).                *)
C4_MirrorExact ==
    (fn = "render" /\ pc = "done" /\ prev # <<>>) =>
        \A jj \in Rows : \A ii \in Cols :
            out[CellPos(ii, jj)] = prev[CellPos(79 - ii, 23 - jj)]

(* C4, amended: the output of render(pred, B, A) is the mirror image       *)
(* shifted by one cell: for 1 <= i < 80 and 1 <= j < 24 its cell (i, j) is *)
(* cell (80-i, 24-j) of the output of render(pred, A, B).                  *)
C4_MirrorShifted ==
    (fn = "render" /\ pc = "done" /\ prev # <<>>) =>
        \A jj \in 1..23 : \A ii \in 1..79 :
            out[CellPos(ii, jj)] = prev[CellPos(80 - ii, 24 - jj)]

C4_Witness ==
    /\ fn = "render" /\ pc = "done" /\ prev # <<>>
    /\ func = "diag" /\ a.re # b.re /\ a.im # b.im
    /\ out # prev
    /\ \E jj \in Rows : \E ii \in Cols :
           out[CellPos(ii, jj)] # prev[CellPos(79 - ii, 23 - jj)]

(* C5: the output of render_colour ends with the reset sequence ESC[m,     *)
(* written exactly once, last, after the newline of the 24th row, and      *)
(* never between cells or rows.                                            *)
C5_ResetLast ==
    fn = "render_colour" =>
        /\ \A k \in 1..Len(out) :
             out[k] = "ESC[m" => (pc = "done" /\ k = Len(out) /\ k = 24 * 81 + 1)
        /\ pc = "done" =>
             /\ Len(out) = 24 * 81 + 1
             /\ out[Len(out)] = "ESC[m"
             /\ out[Len(out) - 1] = "\n"

C5_Witness ==
    /\ fn = "render_colour" /\ pc = "done"
    /\ out[Len(out)] = "ESC[m"
    /\ Cardinality({k \in 1..Len(out) : out[k] = "ESC[m"}) = 1

(* The text ESC[38;2;R;G;Bm# of a colour, with the decimal text of each channel. *)
ClaimedCell(col) ==
    "ESC[38;2;" \o ToString(col.r) \o ";" \o ToString(col.g) \o ";"
        \o ToString(col.b) \o "m#"

(* C6: in render_colour every cell writes ESC[38;2;R;G;Bm followed by '#', *)
(* (R, G, B) being colour_map of the function's value at the cell's sample *)
(* point, unchanged and unclamped; a row is 80 such cells and one newline; *)
(* no cell is written as a space.                                          *)
C6_ColourCells ==
    (fn = "render_colour" /\ pc = "done") =>
        /\ \A jj \in Rows : \A ii \in Cols :
             out[CellPos(ii, jj)] =
                 ClaimedCell(ColourTable[ScalarFn(func, ClaimedPoint(ii, jj))])
        /\ \A jj \in Rows : out[jj * 81 + 81] = "\n"
        /\ \A k \in 1..Len(out) : out[k] # " "

C6_Witness ==
    /\ fn = "render_colour" /\ pc = "done" /\ func = "cold"
    /\ ColourTable[ScalarFn(func, ClaimedPoint(0, 0))].b < 0
    /\ ColourTable[ScalarFn(func, ClaimedPoint(0, 0))].g > 255
    /\ out[1] = "ESC[38;2;-117;647;-64m#"

(* The chunk a renderer writes for cell (ii, jj). *)
ClaimedChunk(ii, jj) ==
    IF fn = "render"
    THEN (IF Pred(func, ClaimedPoint(ii, jj)) THEN "#" ELSE " ")
    ELSE ClaimedCell(ColourTable[ScalarFn(func, ClaimedPoint(ii, jj))])

(* C8: when the caller's function faults at the cell of row-major index k, *)
(* the renderer stops there: cells 0..k were evaluated and no later one,   *)
(* the output is exactly that of the k cells before it with the newlines   *)
(* of the completed rows, nothing is written for cell k, render_colour     *)
(* writes no reset, and no step follows.                                   *)
C8_FaultStops ==
    pc = "fault" =>
        /\ faultAt \in 0..(80 * 24 - 1)
        /\ Len(calls) = faultAt + 1
        /\ calls[Len(calls)] = ClaimedPoint(faultAt % 80, faultAt \div 80)
        /\ Len(out) = faultAt + (faultAt \div 80)
        /\ \A m \in 0..(faultAt - 1) :
             out[CellPos(m % 80, m \div 80)] = ClaimedChunk(m % 80, m \div 80)
        /\ \A jj \in 0..((faultAt \div 80) - 1) : out[jj * 81 + 81] = "\n"
        /\ \A k \in 1..Len(out) : out[k] # "ESC[m"
        /\ ~ENABLED Next

C8_Witness ==
    /\ pc = "fault" /\ fn = "render_colour" /\ faultAt = 81
    /\ Len(out) = 82
    /\ out[81] = "\n"

IsTruncation(c, v) ==
    /\ QLeq(QInt(Abs(c)), QAbs(v))
    /\ QLess(QAbs(v), QInt(Abs(c) + 1))
    /\ c < 0 => QIsNeg(v)
    /\ c > 0 => QIsPositive(v)

(* C7: colour_map scales each channel formula by 255 and truncates toward  *)
(* zero, and colour_map(0) is exactly r=120, g=27, b=129, from 0.472*255,  *)
(* 0.108932*255 and (1/1.97)*255.                                          *)
C7_Truncates ==
    (fn = "colour_map" /\ pc = "done") =>
        /\ IsTruncation(colour.r, QMul(RChannel(x), QInt(255)))
        /\ IsTruncation(colour.g, QMul(GChannel(x), QInt(255)))
        /\ IsTruncation(colour.b, QMul(BChannel(x), QInt(255)))
        /\ x = 0 =>
             /\ colour = [r |-> 120, g |-> 27, b |-> 129]
             /\ IsTruncation(colour.r, QMul(QDec(472, 1000), QInt(255)))
             /\ IsTruncation(colour.g, QMul(QDec(108932, 1000000), QInt(255)))
             /\ IsTruncation(colour.b, QMul(QDiv(QInt(1), QDec(197, 100)), QInt(255)))

(* colour_map(0) is computed, and rounding 0.108932*255 >= 27.5 would give 28. *)
C7_Witness ==
    /\ fn = "colour_map" /\ pc = "done" /\ x = 0
    /\ colour.g = 27
    /\ QLeq(QDec(275, 10), QMul(QDec(108932, 1000000), QInt(255)))

(* C10: for x in [0, 1] the denominators of the r and b formulas are       *)
(* strictly positive and each returned channel is an integer in 0..255.    *)
C10_UnitRange ==
    (fn = "colour_map" /\ pc = "done" /\ x \in 0..XDen) =>
        /\ QIsPositive(RDen(x))
        /\ QIsPositive(BDen(x))
        /\ colour.r \in 0..255
        /\ colour.g \in 0..255
        /\ colour.b \in 0..255

C10_Witness ==
    /\ fn = "colour_map" /\ pc = "done" /\ x = XDen
    /\ colour = [r |-> 216, g |-> 32, b |-> 31]

====
